---- MODULE Spec2Model ----
(***************************************************************************)
(* Model of allbirds-shoe-search/server.ts: the query interpreter          *)
(* (resolveSize, parseQueryAndSize), the catalog cache (fetchAllProducts), *)
(* the catalog filter (searchAllbirds) and the search-allbirds-shoes tool  *)
(* handler.                                                                *)
(*                                                                         *)
(* JavaScript strings are sequences of one-character strings, so that      *)
(* toLowerCase, split, parseFloat and the \b of the regular expressions    *)
(* are computed character by character.  An optional value (a parameter    *)
(* or field that may be undefined) is a record [some, val].                *)
(***************************************************************************)
EXTENDS Integers, Sequences, FiniteSets, TLC

\* ------------------------------------------------------------------ text

UpperSeq == <<"A", "B", "C", "D", "E", "F", "G", "H", "I", "J", "K", "L", "M",
              "N", "O", "P", "Q", "R", "S", "T", "U", "V", "W", "X", "Y", "Z">>

LowerSeq == <<"a", "b", "c", "d", "e", "f", "g", "h", "i", "j", "k", "l", "m",
              "n", "o", "p", "q", "r", "s", "t", "u", "v", "w", "x", "y", "z">>

DigitSeq == <<"0", "1", "2", "3", "4", "5", "6", "7", "8", "9">>

Range(s) == {s[i] : i \in 1..Len(s)}

WhiteSpace == {" ", "\t", "\n"}

\* String.prototype.toLowerCase, one character
ToLowerChar(c) ==
  IF c \in Range(UpperSeq)
  THEN LowerSeq[CHOOSE i \in 1..Len(UpperSeq) : UpperSeq[i] = c]
  ELSE c

\* String.prototype.toLowerCase
ToLowerCase(s) == [i \in 1..Len(s) |-> ToLowerChar(s[i])]

\* The regular expression class \w (no u flag: ASCII only)
IsWordChar(c) == c \in Range(UpperSeq) \cup Range(LowerSeq) \cup Range(DigitSeq) \cup {"_"}

\* The assertion \b before position i (1-based) of s: exactly one of the
\* characters s[i-1], s[i] is a word character; outside s counts as none.
WordBoundary(s, i) ==
  LET before == i > 1 /\ i - 1 <= Len(s) /\ IsWordChar(s[i - 1])
      after  == i >= 1 /\ i <= Len(s) /\ IsWordChar(s[i])
  IN  before # after

\* pat occurs in s at position i, compared as the i flag compares
OccursAt(pat, s, i) ==
  /\ i >= 1
  /\ i + Len(pat) - 1 <= Len(s)
  /\ \A k \in 1..Len(pat) : ToLowerChar(s[i + k - 1]) = ToLowerChar(pat[k])

\* An optional value
Undefined == [some |-> FALSE, val |-> <<>>]

Some(v) == [some |-> TRUE, val |-> v]

\* ---------------------------------------------------------------- numbers

\* A JavaScript number that parseFloat can return from the strings of this
\* model: NaN, or the decimal num / den (den a power of ten).
NaN == [nan |-> TRUE, num |-> 0, den |-> 1]

DigitVal(c) == (CHOOSE i \in 1..Len(DigitSeq) : DigitSeq[i] = c) - 1

IsDigit(c) == c \in Range(DigitSeq)

RECURSIVE DigitRun(_, _)
\* The length of the run of digits of s that starts at position i
DigitRun(s, i) ==
  IF i <= Len(s) /\ IsDigit(s[i]) THEN 1 + DigitRun(s, i + 1) ELSE 0

RECURSIVE DigitsValue(_, _, _)
\* The value of the n digits of s from position i
DigitsValue(s, i, n) ==
  IF n = 0 THEN 0
  ELSE 10 * DigitsValue(s, i, n - 1) + DigitVal(s[i + n - 1])

RECURSIVE Pow10(_)
Pow10(n) == IF n = 0 THEN 1 ELSE 10 * Pow10(n - 1)

RECURSIVE SkipWs(_, _)
SkipWs(s, i) == IF i <= Len(s) /\ s[i] \in WhiteSpace THEN SkipWs(s, i + 1) ELSE i

\* parseFloat: leading white space, an optional sign, digits, an optional
\* point and digits; the longest such prefix, NaN when it has no digit.
\* (No string of the model holds an exponent or "Infinity".)
ParseFloat(s) ==
  LET i0   == SkipWs(s, 1)
      neg  == i0 <= Len(s) /\ s[i0] = "-"
      i1   == IF i0 <= Len(s) /\ s[i0] \in {"+", "-"} THEN i0 + 1 ELSE i0
      n    == DigitRun(s, i1)
      dot  == i1 + n <= Len(s) /\ s[i1 + n] = "."
      m    == IF dot THEN DigitRun(s, i1 + n + 1) ELSE 0
      mag  == DigitsValue(s, i1, n) * Pow10(m) + DigitsValue(s, i1 + n + 1, m)
  IN  IF n + m = 0 THEN NaN
      ELSE [nan |-> FALSE, num |-> IF neg THEN 0 - mag ELSE mag, den |-> Pow10(m)]

\* !isNaN(num) && num >= lo && num <= hi
InRange(v, lo, hi) == ~v.nan /\ v.num >= lo * v.den /\ v.num <= hi * v.den

\* Math.round: the nearest integer, a half rounded up
MathRound(v) == (2 * v.num + v.den) \div (2 * v.den)

RECURSIVE NatToString(_)
\* Number.prototype.toString of a natural number
NatToString(n) ==
  IF n < 10 THEN <<DigitSeq[n + 1]>>
  ELSE NatToString(n \div 10) \o <<DigitSeq[(n % 10) + 1]>>

\* Number.prototype.toFixed(0) of a number parseFloat returned
ToFixed0(v) ==
  IF v.nan THEN <<"N", "a", "N">>
  ELSE LET r == IF v.num >= 0 THEN (2 * v.num + v.den) \div (2 * v.den)
                ELSE (2 * (0 - v.num) + v.den) \div (2 * v.den)
       IN  IF v.num < 0 /\ r > 0 THEN <<"-">> \o NatToString(r)
           ELSE IF v.num < 0 THEN <<"-", "0">> ELSE NatToString(r)

\* ------------------------------------------------------ query interpreter

\* EU -> US men's size conversion table
EU_TO_US ==
  [n \in 35..48 |->
     CASE n = 35 -> <<"4">>
       [] n = 36 -> <<"4", ".", "5">>
       [] n = 37 -> <<"5">>
       [] n = 38 -> <<"6">>
       [] n = 39 -> <<"6", ".", "5">>
       [] n = 40 -> <<"7">>
       [] n = 41 -> <<"8">>
       [] n = 42 -> <<"9">>
       [] n = 43 -> <<"1", "0">>
       [] n = 44 -> <<"1", "1">>
       [] n = 45 -> <<"1", "2">>
       [] n = 46 -> <<"1", "3">>
       [] n = 47 -> <<"1", "4">>
       [] n = 48 -> <<"1", "5">>]

\* Generic words that appear in queries but not in product titles
IGNORED_TERMS ==
  { <<"s", "h", "o", "e", "s">>, <<"s", "h", "o", "e">>,
    <<"c", "h", "a", "u", "s", "s", "u", "r", "e", "s">>,
    <<"c", "h", "a", "u", "s", "s", "u", "r", "e">>,
    <<"s", "n", "e", "a", "k", "e", "r", "s">>,
    <<"s", "n", "e", "a", "k", "e", "r">> }

\* The connector words parseQueryAndSize skips
CONNECTORS == { <<"t", "a", "i", "l", "l", "e">>, <<"s", "i", "z", "e">> }

resolveSize(size) ==
  LET num == ParseFloat(size)
  IN  IF InRange(num, 35, 50)
      THEN IF MathRound(num) \in DOMAIN EU_TO_US
           THEN EU_TO_US[MathRound(num)]
           ELSE size
      ELSE size

RECURSIVE SplitFrom(_, _, _)
\* split(/\s+/) from position i on, cur the piece being read
SplitFrom(s, i, cur) ==
  IF i > Len(s) THEN <<cur>>
  ELSE IF s[i] \in WhiteSpace
       THEN IF i > 1 /\ s[i - 1] \in WhiteSpace
            THEN SplitFrom(s, i + 1, cur)
            ELSE <<cur>> \o SplitFrom(s, i + 1, <<>>)
       ELSE SplitFrom(s, i + 1, Append(cur, s[i]))

\* String.prototype.split(/\s+/)
SplitWhitespace(s) == SplitFrom(s, 1, <<>>)

\* filter(Boolean) on strings: the empty string is falsy
FilterBoolean(pieces) == LET NonEmpty(p) == p # <<>> IN SelectSeq(pieces, NonEmpty)

\* US size range 4-15 or EU size range 35-50
IsSizeToken(token) ==
  LET num == ParseFloat(token)
  IN  InRange(num, 4, 15) \/ InRange(num, 35, 50)

Tokenize(rawQuery) == FilterBoolean(SplitWhitespace(ToLowerCase(rawQuery)))

SizeTokens(tokens) == SelectSeq(tokens, IsSizeToken)

TextTokens(tokens) ==
  LET Kept(token) == /\ ~IsSizeToken(token)
                     /\ token \notin CONNECTORS
                     /\ token \notin IGNORED_TERMS
  IN  SelectSeq(tokens, Kept)

\* RawSize with the operands of ?? exchanged: sizeTokens[0] ?? explicitSize
RawSize_TextFirst(explicitSize, sizeTokens) ==
  IF Len(sizeTokens) > 0 THEN Some(sizeTokens[1]) ELSE explicitSize

\* explicitSize ?? sizeTokens[0]
RawSize(explicitSize, sizeTokens) ==
  IF explicitSize.some THEN explicitSize
  ELSE IF Len(sizeTokens) > 0 THEN Some(sizeTokens[1]) ELSE Undefined

\* rawSize ? resolveSize(rawSize) : undefined  (the empty string is falsy)
ResolveRaw(rawSize) ==
  IF rawSize.some /\ rawSize.val # <<>> THEN Some(resolveSize(rawSize.val)) ELSE Undefined

parseQueryAndSize(rawQuery, explicitSize) ==
  LET tokens == Tokenize(rawQuery)
  IN  [terms |-> TextTokens(tokens),
       size  |-> ResolveRaw(RawSize(explicitSize, SizeTokens(tokens)))]


\* ------------------------------------------------------------ image fetch

\* `${url}${sep}width=200&format=pjpg`
ImageRequestUrl(url) ==
  url \o <<IF "?" \in Range(url) THEN "&" ELSE "?">> \o <<"w", "i", "d", "t", "h", "=", "2", "0", "0", "&", "f", "o", "r", "m", "a", "t", "=", "p", "j", "p", "g">>

\* What the image endpoint does with one request: the fetch rejects
\* ("throws"), answers with a non-success status ("notOk"), or answers
\* with a body (given as its base64 text) and an optional content-type.
ImageOutcomes ==
  { [kind |-> "throws", contentType |-> Undefined, base64 |-> <<>>],
    [kind |-> "notOk",  contentType |-> Undefined, base64 |-> <<>>],
    [kind |-> "ok",     contentType |-> Undefined, base64 |-> <<"/", "9", "j", "/">>],
    [kind |-> "ok",     contentType |-> Some(<<"i", "m", "a", "g", "e", "/", "p", "n", "g">>), base64 |-> <<"i", "V", "B", "O">>] }

\* a promise that has settled
Resolved(value) == [rejected |-> FALSE, value |-> value]
Rejected(message) == [rejected |-> TRUE, value |-> message]

\* fetchImageAsDataUrl without its try/catch: a rejected fetch rejects it
fetchImageAsDataUrl_NoCatch(url, outcome) ==
  IF outcome.kind = "throws" THEN Rejected("fetch failed")
  ELSE IF outcome.kind = "notOk" THEN Resolved(<<>>)
  ELSE Resolved(<<"d", "a", "t", "a", ":">>
         \o (IF outcome.contentType.some THEN outcome.contentType.val ELSE <<"i", "m", "a", "g", "e", "/", "j", "p", "e", "g">>)
         \o <<";", "b", "a", "s", "e", "6", "4", ",">> \o outcome.base64)

\* the promise fetchImageAsDataUrl(url) settles to, given what the endpoint
\* does with the request for ImageRequestUrl(url)
fetchImageAsDataUrl(url, outcome) ==
  IF outcome.kind = "throws" THEN Resolved(<<>>)
  ELSE IF outcome.kind = "notOk" THEN Resolved(<<>>)
  ELSE Resolved(<<"d", "a", "t", "a", ":">>
         \o (IF outcome.contentType.some THEN outcome.contentType.val ELSE <<"i", "m", "a", "g", "e", "/", "j", "p", "e", "g">>)
         \o <<";", "b", "a", "s", "e", "6", "4", ",">> \o outcome.base64)

\* ---------------------------------------------------------- catalog cache

CACHE_TTL_MS == 5 * 60 * 1000

\* CacheIsFresh with the window closed at its end: <= for <
CacheIsFresh_Inclusive(cache, time, clock) == cache.some /\ clock - time <= CACHE_TTL_MS

\* productsCache && Date.now() - cacheTime < CACHE_TTL_MS  (an array is truthy)
CacheIsFresh(cache, time, clock) == cache.some /\ clock - time < CACHE_TTL_MS

\* data.products ?? []
ProductsOf(data) == IF data.products.some THEN data.products.val ELSE <<>>

\* StoredPair with the assignment of cacheTime forgotten
StoredPair_KeepsTime(array, clock, oldCache, oldTime) ==
  [cache |-> Some(array), time |-> oldTime]

\* productsCache = data.products ?? []; cacheTime = Date.now();
\* (array names the array data.products ?? [] evaluates to)
StoredPair(array, clock, oldCache, oldTime) ==
  [cache |-> Some(array), time |-> clock]

\* ---------------------------------------------------------- catalog filter

\* a value used as a condition: undefined and the empty string are falsy
Truthy(opt) == opt.some /\ opt.val # <<>>

\* TermMatches with the \b left out of the pattern
TermMatches_Anywhere(title, term) == \E i \in 1..Len(title) : OccursAt(term, title, i)

\* new RegExp(`\\b${escaped term}`, "i").test(title): every character of the
\* term is matched literally (the special ones are escaped), after a \b
TermMatches(title, term) ==
  \E i \in 1..Len(title) : WordBoundary(title, i) /\ OccursAt(term, title, i)

\* /\bword\b/i.test(title)
HasWord(title, word) ==
  \E i \in 1..Len(title) :
     /\ WordBoundary(title, i)
     /\ OccursAt(word, title, i)
     /\ WordBoundary(title, i + Len(word))

\* the callback of the term filter
TermKeeps(p, terms) ==
  LET title == ToLowerCase(p.title)
  IN  Len(terms) = 0 \/ \A k \in 1..Len(terms) : TermMatches(title, terms[k])

\* GenderKeeps with the test for "women" left out of the "men" branch
GenderKeeps_NoWomenGuard(p, gender) ==
  IF gender = "women" THEN HasWord(p.title, <<"w", "o", "m", "e", "n">>)
  ELSE IF gender = "men" THEN HasWord(p.title, <<"m", "e", "n">>)
  ELSE TRUE

\* the callbacks of the gender filter
GenderKeeps(p, gender) ==
  IF gender = "women" THEN HasWord(p.title, <<"w", "o", "m", "e", "n">>)
  ELSE IF gender = "men" THEN HasWord(p.title, <<"m", "e", "n">>) /\ ~HasWord(p.title, <<"w", "o", "m", "e", "n">>)
  ELSE TRUE

\* v.title.toLowerCase() === usSize.toLowerCase()
VariantIsSize(v, usSize) == ToLowerCase(v.title) = ToLowerCase(usSize.val)

\* the callback of the size filter, for a product that has a variants array
SizeKeeps(p, usSize) ==
  \E j \in 1..Len(p.variants.val) :
     VariantIsSize(p.variants.val[j], usSize) /\ p.variants.val[j].available # "false"

TermFilter(products, terms) ==
  LET Keep(p) == TermKeeps(p, terms) IN SelectSeq(products, Keep)

GenderFilter(matches, gender) ==
  LET Keep(p) == GenderKeeps(p, gender) IN SelectSeq(matches, Keep)

\* p.variants.some(...) on a product without variants is a TypeError
SizeFilterThrows(matches, usSize) ==
  Truthy(usSize) /\ \E i \in 1..Len(matches) : ~matches[i].variants.some

SizeFilter(matches, usSize) ==
  IF Truthy(usSize)
  THEN LET Keep(p) == SizeKeeps(p, usSize) IN SelectSeq(matches, Keep)
  ELSE matches

\* p.variants.find(...) or p.variants[0] on a product without variants, and
\* p.images[0] on a product without images, are TypeErrors
ShoeThrows(p) == ~p.variants.some \/ ~p.images.some

\* Top10 as its name has it: slice(0, 10)
Top10_Ten(matches) == SubSeq(matches, 1, IF Len(matches) < 10 THEN Len(matches) ELSE 10)

\* matches.slice(0, 5)
Top10(matches) == SubSeq(matches, 1, IF Len(matches) < 5 THEN Len(matches) ELSE 5)

\* The part of searchAllbirds between its two awaits, given the products the
\* term and gender filters kept: whether a callback threw, the matches and
\* the products shoes are made of
SearchTop(threw, matches) ==
  [threw   |-> threw \/ \E p \in Range(Top10(matches)) : ShoeThrows(p),
   matches |-> matches,
   top10   |-> Top10(matches)]

SearchFrom(kept, usSize) ==
  SearchTop(SizeFilterThrows(kept, usSize), SizeFilter(kept, usSize))

SearchSync(allProducts, terms, gender, usSize) ==
  SearchFrom(GenderFilter(TermFilter(allProducts, terms), gender), usSize)

NoVariant == [title |-> <<>>, price |-> Undefined, available |-> "absent"]

\* usSize ? p.variants.find(v => v.title.toLowerCase() === usSize.toLowerCase())
\*        : p.variants[0]
TargetVariant(p, usSize) ==
  LET vs  == p.variants.val
      hit == {j \in 1..Len(vs) : VariantIsSize(vs[j], usSize)}
  IN  IF Truthy(usSize)
      THEN IF hit = {} THEN [some |-> FALSE, val |-> NoVariant]
           ELSE [some |-> TRUE, val |-> vs[CHOOSE j \in hit : \A k \in hit : j <= k]]
      ELSE IF Len(vs) = 0 THEN [some |-> FALSE, val |-> NoVariant]
           ELSE [some |-> TRUE, val |-> vs[1]]

\* targetVariant?.price ? `$${parseFloat(targetVariant.price).toFixed(0)}` : "See price"
PriceOf(targetVariant) ==
  IF targetVariant.some /\ Truthy(targetVariant.val.price)
  THEN <<"$">> \o ToFixed0(ParseFloat(targetVariant.val.price.val))
  ELSE <<"S", "e", "e", " ", "p", "r", "i", "c", "e">>

\* p.images[0]?.src ?? ""
RawImageUrl(p) ==
  IF Len(p.images.val) > 0 /\ p.images.val[1].src.some
  THEN p.images.val[1].src.val
  ELSE <<>>

\* the shoe the map callback returns for product p
ShoeOf(p, usSize, imageUrl) ==
  [name       |-> p.title,
   price      |-> PriceOf(TargetVariant(p, usSize)),
   imageUrl   |-> imageUrl,
   productUrl |-> <<"h", "t", "t", "p", "s", ":", "/", "/", "w", "w", "w", ".", "a", "l", "l", "b", "i", "r", "d", "s", ".", "c", "o", "m", "/", "p", "r", "o", "d", "u", "c", "t", "s", "/">> \o p.handle
                    \o (IF Truthy(usSize) THEN <<"?", "s", "i", "z", "e", "=">> \o usSize.val ELSE <<>>),
   size       |-> usSize,
   handle     |-> p.handle]

\* error: null, or error: a message
NoError == [isNull |-> TRUE, message |-> ""]

ErrorOf(message) == [isNull |-> FALSE, message |-> message]

\* what searchAllbirds returns
SearchResultOf(inp, usSize, shoes, totalFound) ==
  [query      |-> inp.query,
   size       |-> IF usSize.some THEN usSize ELSE inp.size,
   gender     |-> inp.gender,
   shoes      |-> shoes,
   totalFound |-> totalFound,
   error      |-> NoError]

\* ------------------------------------------------------------ tool handler

NoResult ==
  [kind |-> "none", isError |-> FALSE,
   body |-> [query |-> <<>>, size |-> Undefined, gender |-> "undefined",
             shoes |-> <<>>, totalFound |-> 0, error |-> NoError]]

\* the try branch of the handler: the result of searchAllbirds is returned
HandlerReturns(result) == [kind |-> "returned", isError |-> FALSE, body |-> result]

\* HandlerCatches with the error thrown again instead of returned as data
HandlerCatches_Rethrows(inp, message) ==
  [kind |-> "raised", isError |-> TRUE,
   body |-> [query |-> inp.query, size |-> inp.size, gender |-> inp.gender,
             shoes |-> <<>>, totalFound |-> 0, error |-> ErrorOf(message)]]

\* the catch branch of the handler
HandlerCatches(inp, message) ==
  [kind |-> "returned", isError |-> TRUE,
   body |-> [query |-> inp.query, size |-> inp.size, gender |-> inp.gender,
             shoes |-> <<>>, totalFound |-> 0, error |-> ErrorOf(message)]]

\* ----------------------------------------------------- upstream and callers

Variant(title, price, available) ==
  [title |-> title, price |-> price, available |-> available]

Product(title, handle, variants, images) ==
  [title |-> title, handle |-> handle, variants |-> variants, images |-> images]

Image(src) == [src |-> Some(src)]

P_MensWool ==
  Product(<<"M", "e", "n", "'", "s", " ", "W", "o", "o", "l", " ", "R", "u", "n", "n", "e", "r">>, <<"m", "w", "r">>,
          Some(<<Variant(<<"8">>, Some(<<"9", "8", ".", "0", "0">>), "true"),
                 Variant(<<"9">>, Some(<<"9", "8", ".", "5", "0">>), "true")>>),
          Some(<<Image(<<"/", "/", "c", "d", "n", "/", "a", ".", "j", "p", "g", "?", "v", "=", "1">>)>>))

P_WomensWool ==
  Product(<<"W", "o", "m", "e", "n", "'", "s", " ", "W", "o", "o", "l", " ", "R", "u", "n", "n", "e", "r">>, <<"w", "w", "r">>,
          Some(<<Variant(<<"9">>, Undefined, "absent")>>),
          Some(<<>>))

P_Trail ==
  Product(<<"T", "r", "a", "i", "l", " ", "R", "u", "n", "n", "e", "r">>, <<"t", "r">>,
          Some(<<Variant(<<"9">>, Some(<<"1", "4", "0">>), "false")>>),
          Some(<<Image(<<"/", "/", "c", "d", "n", "/", "c", ".", "j", "p", "g">>)>>))

P_MensTree ==
  Product(<<"M", "e", "n", "'", "s", " ", "T", "r", "e", "e", " ", "R", "u", "n", "n", "e", "r">>, <<"m", "t", "r">>,
          Some(<<Variant(<<"1", "0">>, Some(<<"a", "b", "c">>), "true")>>),
          Some(<<[src |-> Undefined]>>))

P_WomensTree ==
  Product(<<"W", "o", "m", "e", "n", "'", "s", " ", "T", "r", "e", "e", " ", "R", "u", "n", "n", "e", "r">>, <<"w", "t", "r">>, Some(<<>>), Some(<<>>))

P_Mizzle ==
  Product(<<"W", "o", "o", "l", " ", "R", "u", "n", "n", "e", "r", " ", "M", "i", "z", "z", "l", "e">>, <<"w", "r", "m">>,
          Some(<<Variant(<<"9">>, Some(<<"1", "2", "0">>), "true")>>), Some(<<>>))

P_Go ==
  Product(<<"R", "u", "n", "n", "e", "r", " ", "G", "o">>, <<"r", "g">>,
          Some(<<Variant(<<"9">>, Some(<<"1", "1", "0">>), "true")>>),
          Some(<<Image(<<"/", "/", "c", "d", "n", "/", "g", ".", "j", "p", "g">>)>>))

\* products of a malformed document: no variants field, no images field
P_NoVariants == Product(<<"W", "o", "o", "l", " ", "L", "o", "u", "n", "g", "e", "r">>, <<"w", "l">>, Undefined, Some(<<>>))

P_NoImages ==
  Product(<<"W", "o", "o", "l", " ", "P", "i", "p", "e", "r">>, <<"w", "p">>,
          Some(<<Variant(<<"9">>, Some(<<"9", "5">>), "true")>>), Undefined)

\* The JSON documents the catalog endpoint answers with in this model
Documents ==
  << [products |-> Undefined],
     [products |-> Some(<<P_MensWool, P_WomensWool, P_MensTree, P_WomensTree,
                          P_Mizzle, P_Trail, P_Go>>)],
     [products |-> Some(<<P_Go, P_NoVariants, P_NoImages>>)] >>

\* An array of products is never changed once parsed, so the state holds,
\* for an array, the number of the document it was parsed from:
\* ArrayOf(d) is the array data.products ?? [] of document d.
ArrayOf(d) == ProductsOf(Documents[d])

\* The arguments the host calls the tool with in this model
Input(query, size, gender) == [query |-> query, size |-> size, gender |-> gender]

Inputs ==
  { Input(<<"R", "u", "n", "n", "e", "r", " ", "s", "h", "o", "e", "s">>, Undefined, "undefined"),
    Input(<<"w", "o", "o", "l", " ", "4", "2">>, Undefined, "men"),
    Input(<<"w", "o", "o", "l">>, Some(<<"9">>), "undefined"),
    Input(<<"r", "u", "n", "n", "e", "r", " ", "9">>, Undefined, "undefined"),
    Input(<<"P", "i", "p", "e", "r">>, Undefined, "undefined") }

\* The arguments of the calls that run concurrently in this model
RacingInputs == { Input(<<"w", "o", "o", "l">>, Some(<<"9">>), "undefined") }

\* The requests the host may have open at once
Req == {1, 2}

\* The number of times the clock is read to have advanced in a run
MaxTicks == 2

\* The amounts Date.now() advances by between two steps
TickSteps == {1, CACHE_TTL_MS - 1}

\* ------------------------------------------------------------------ state

VARIABLES
  now,            \* Date.now()
  productsCache,  \* the module variable productsCache (Undefined: null)
  cacheTime,      \* the module variable cacheTime
  pc,             \* where each request's handler stands
  input,          \* the arguments of each request
  terms,          \* searchAllbirds' local terms
  usSize,         \* searchAllbirds' local usSize
  allProducts,    \* searchAllbirds' local allProducts
  matches,        \* searchAllbirds' local matches, while the images are awaited
  top10,          \* searchAllbirds' local top10, while the images are awaited
  result,         \* what each request's handler gave the host
  fetches,        \* history: the upstream catalog fetches the request issued
  fetchFailed,    \* history: the request's upstream catalog fetch failed
  imageOutcome,   \* history: what the image endpoint did for each shoe
  lastStore,      \* history: the snapshot and timestamp last stored together
  ticks,          \* the clock advances so far
  arg,            \* the arguments of a function applied on its own
  out             \* what the function returned

server == <<now, productsCache, cacheTime, pc, input, terms, usSize, allProducts,
            matches, top10, result, fetches, fetchFailed, imageOutcome, lastStore, ticks>>

vars == <<server, arg, out>>

NoInput == Input(<<>>, Undefined, "undefined")

\* no array yet
NoArray == 0

NoArg == [query |-> <<>>, size |-> Undefined, gender |-> "undefined", titles |-> <<>>]

NoOut == [done |-> FALSE, terms |-> <<>>, size |-> Undefined,
          afterTerms |-> <<>>, afterGender |-> <<>>]

InitServer ==
  /\ now = 0
  /\ productsCache = [some |-> FALSE, val |-> NoArray]
  /\ cacheTime = 0
  /\ pc = [r \in Req |-> "idle"]
  /\ input = [r \in Req |-> NoInput]
  /\ terms = [r \in Req |-> <<>>]
  /\ usSize = [r \in Req |-> Undefined]
  /\ allProducts = [r \in Req |-> NoArray]
  /\ matches = [r \in Req |-> <<>>]
  /\ top10 = [r \in Req |-> <<>>]
  /\ result = [r \in Req |-> NoResult]
  /\ fetches = [r \in Req |-> 0]
  /\ fetchFailed = [r \in Req |-> FALSE]
  /\ imageOutcome = [r \in Req |-> <<>>]
  /\ lastStore = [cache |-> [some |-> FALSE, val |-> NoArray], time |-> 0]
  /\ ticks = 0

Init == InitServer /\ arg = NoArg /\ out = NoOut

\* The handler is called: parseQueryAndSize, then fetchAllProducts up to its
\* first await.  A fresh snapshot is returned as it is; otherwise the fetch
\* of the catalog is issued.
CallWith(r, inp, parsed) ==
  /\ pc[r] = "idle"
  /\ input' = [input EXCEPT ![r] = inp]
  /\ terms' = [terms EXCEPT ![r] = parsed.terms]
  /\ usSize' = [usSize EXCEPT ![r] = parsed.size]
  /\ IF CacheIsFresh(productsCache, cacheTime, now)
     THEN /\ allProducts' = [allProducts EXCEPT ![r] = productsCache.val]
          /\ fetches' = [fetches EXCEPT ![r] = 0]
          /\ pc' = [pc EXCEPT ![r] = "filter"]
     ELSE /\ allProducts' = [allProducts EXCEPT ![r] = NoArray]
          /\ fetches' = [fetches EXCEPT ![r] = 1]
          /\ pc' = [pc EXCEPT ![r] = "awaitFetch"]
  /\ UNCHANGED <<now, productsCache, cacheTime, matches, top10, result, fetchFailed,
                 imageOutcome, lastStore, ticks, arg, out>>

Call(r, inp) == CallWith(r, inp, parseQueryAndSize(inp.query, inp.size))

\* The handler ends in its catch branch with the message of the error
Fails(r, message) ==
  /\ result' = [result EXCEPT ![r] = HandlerCatches(input[r], message)]
  /\ pc' = [pc EXCEPT ![r] = "done"]

\* await fetch(...) rejects: a transport failure
FetchRejects(r) ==
  /\ pc[r] = "awaitFetch"
  /\ Fails(r, "fetch failed")
  /\ fetchFailed' = [fetchFailed EXCEPT ![r] = TRUE]
  /\ UNCHANGED <<now, productsCache, cacheTime, input, terms, usSize, allProducts,
                 matches, top10, fetches, imageOutcome, lastStore, ticks, arg, out>>

\* await fetch(...) answers with a status that is not a success: !res.ok
FetchNotOk(r) ==
  /\ pc[r] = "awaitFetch"
  /\ Fails(r, "HTTP 500: Failed to fetch Allbirds products")
  /\ fetchFailed' = [fetchFailed EXCEPT ![r] = TRUE]
  /\ UNCHANGED <<now, productsCache, cacheTime, input, terms, usSize, allProducts,
                 matches, top10, fetches, imageOutcome, lastStore, ticks, arg, out>>

\* await fetch(...) answers with a success status; res.json() is awaited
FetchOk(r) ==
  /\ pc[r] = "awaitFetch"
  /\ pc' = [pc EXCEPT ![r] = "awaitJson"]
  /\ UNCHANGED <<now, productsCache, cacheTime, input, terms, usSize, allProducts,
                 matches, top10, result, fetches, fetchFailed, imageOutcome,
                 lastStore, ticks, arg, out>>

\* await res.json() rejects: the body does not parse
JsonRejects(r) ==
  /\ pc[r] = "awaitJson"
  /\ Fails(r, "Unexpected token < in JSON at position 0")
  /\ fetchFailed' = [fetchFailed EXCEPT ![r] = TRUE]
  /\ UNCHANGED <<now, productsCache, cacheTime, input, terms, usSize, allProducts,
                 matches, top10, fetches, imageOutcome, lastStore, ticks, arg, out>>

\* await res.json() gives document d: the snapshot and its timestamp are
\* assigned with no await between them, and the snapshot is returned
JsonParsedWith(r, d, pair) ==
  /\ pc[r] = "awaitJson"
  /\ productsCache' = pair.cache
  /\ cacheTime' = pair.time
  /\ allProducts' = [allProducts EXCEPT ![r] = pair.cache.val]
  /\ lastStore' = [cache |-> Some(d), time |-> now]
  /\ pc' = [pc EXCEPT ![r] = "filter"]
  /\ UNCHANGED <<now, input, terms, usSize, matches, top10, result, fetches,
                 fetchFailed, imageOutcome, ticks, arg, out>>

JsonParsed(r, d) == JsonParsedWith(r, d, StoredPair(d, now, productsCache, cacheTime))

\* lines 145-169 of searchAllbirds for request r
Resumed(r) == SearchSync(ArrayOf(allProducts[r]), terms[r], input[r].gender, usSize[r])

\* the shoes made of the products top, given the data URL of each image
ShoesOf(top, size, urls) == [i \in 1..Len(top) |-> ShoeOf(top[i], size, urls[i])]

\* the indices of the products of top that have an image to fetch
WithImage(top) == {i \in 1..Len(top) : RawImageUrl(top[i]) # <<>>}

\* searchAllbirds resumes with the products; a filter callback, or a map
\* callback before its await, throws a TypeError on a missing field
FilterThrowsWith(r, s) ==
  /\ pc[r] = "filter"
  /\ s.threw
  /\ Fails(r, "Cannot read properties of undefined")
  /\ UNCHANGED <<now, productsCache, cacheTime, input, terms, usSize, allProducts,
                 matches, top10, fetches, fetchFailed, imageOutcome, lastStore,
                 ticks, arg, out>>

FilterThrows(r) == FilterThrowsWith(r, Resumed(r))

\* searchAllbirds resumes with the products and no selected product has an
\* image to fetch: the result is returned
FilterReturnsWith(r, s) ==
  /\ pc[r] = "filter"
  /\ ~s.threw
  /\ WithImage(s.top10) = {}
  /\ result' = [result EXCEPT ![r] =
       HandlerReturns(SearchResultOf(input[r], usSize[r],
                                     ShoesOf(s.top10, usSize[r], [i \in 1..Len(s.top10) |-> <<>>]),
                                     Len(s.matches)))]
  /\ imageOutcome' = [imageOutcome EXCEPT ![r] = [i \in 1..Len(s.top10) |-> "none"]]
  /\ pc' = [pc EXCEPT ![r] = "done"]
  /\ UNCHANGED <<now, productsCache, cacheTime, input, terms, usSize, allProducts,
                 matches, top10, fetches, fetchFailed, lastStore, ticks, arg, out>>

FilterReturns(r) == FilterReturnsWith(r, Resumed(r))

\* searchAllbirds resumes with the products and fetches the images: the map
\* callbacks of the products with an image each await fetchImageAsDataUrl
FilterFetchesImagesWith(r, s) ==
  /\ pc[r] = "filter"
  /\ ~s.threw
  /\ WithImage(s.top10) # {}
  /\ matches' = [matches EXCEPT ![r] = s.matches]
  /\ top10' = [top10 EXCEPT ![r] = s.top10]
  /\ pc' = [pc EXCEPT ![r] = "awaitImages"]
  /\ UNCHANGED <<now, productsCache, cacheTime, input, terms, usSize, allProducts,
                 result, fetches, fetchFailed, imageOutcome, lastStore, ticks, arg, out>>

FilterFetchesImages(r) == FilterFetchesImagesWith(r, Resumed(r))

\* Promise.all resolves: every image fetch has settled, each in its own way
\* (the fetches share no state, so the order they settle in is not modelled)
ImagesSettle(r, outcomes) ==
  /\ pc[r] = "awaitImages"
  /\ IF \E i \in DOMAIN outcomes :
          fetchImageAsDataUrl(RawImageUrl(top10[r][i]), outcomes[i]).rejected
     THEN result' = [result EXCEPT ![r] = HandlerCatches(input[r], "fetch failed")]
     ELSE result' = [result EXCEPT ![r] =
            HandlerReturns(SearchResultOf(input[r], usSize[r],
              ShoesOf(top10[r], usSize[r],
                      [i \in 1..Len(top10[r]) |->
                         IF i \in DOMAIN outcomes
                         THEN fetchImageAsDataUrl(RawImageUrl(top10[r][i]), outcomes[i]).value
                         ELSE <<>>]),
              Len(matches[r])))]
  /\ imageOutcome' = [imageOutcome EXCEPT ![r] =
       [i \in 1..Len(top10[r]) |-> IF i \in DOMAIN outcomes THEN outcomes[i].kind ELSE "none"]]
  /\ matches' = [matches EXCEPT ![r] = <<>>]
  /\ top10' = [top10 EXCEPT ![r] = <<>>]
  /\ pc' = [pc EXCEPT ![r] = "done"]
  /\ UNCHANGED <<now, productsCache, cacheTime, input, terms, usSize, allProducts,
                 fetches, fetchFailed, lastStore, ticks, arg, out>>

\* The host has the response of request r; the slot is free for another call
Respond(r) ==
  /\ pc[r] = "done"
  /\ pc' = [pc EXCEPT ![r] = "idle"]
  /\ input' = [input EXCEPT ![r] = NoInput]
  /\ terms' = [terms EXCEPT ![r] = <<>>]
  /\ usSize' = [usSize EXCEPT ![r] = Undefined]
  /\ allProducts' = [allProducts EXCEPT ![r] = NoArray]
  /\ result' = [result EXCEPT ![r] = NoResult]
  /\ fetches' = [fetches EXCEPT ![r] = 0]
  /\ fetchFailed' = [fetchFailed EXCEPT ![r] = FALSE]
  /\ imageOutcome' = [imageOutcome EXCEPT ![r] = <<>>]
  /\ UNCHANGED <<now, productsCache, cacheTime, matches, top10, lastStore, ticks, arg, out>>

\* Time passes
Tick(d) ==
  /\ ticks < MaxTicks
  /\ ticks' = ticks + 1
  /\ now' = now + d
  /\ UNCHANGED <<productsCache, cacheTime, pc, input, terms, usSize, allProducts,
                 matches, top10, result, fetches, fetchFailed, imageOutcome,
                 lastStore, arg, out>>

\* One request at a time, with every input and every document of the model
NextOne ==
  \/ \E inp \in Inputs : Call(1, inp)
  \/ FetchRejects(1)
  \/ FetchNotOk(1)
  \/ FetchOk(1)
  \/ JsonRejects(1)
  \/ \E d \in DOMAIN Documents : JsonParsed(1, d)
  \/ FilterThrows(1)
  \/ FilterReturns(1)
  \/ FilterFetchesImages(1)
  \/ \E outcomes \in [WithImage(top10[1]) -> ImageOutcomes] : ImagesSettle(1, outcomes)
  \/ Respond(1)
  \/ \E d \in TickSteps : Tick(d)

SpecOne == Init /\ [][NextOne]_vars

\* Concurrent requests
Next ==
  \/ \E r \in Req, inp \in RacingInputs : Call(r, inp)
  \/ \E r \in Req : FetchRejects(r)
  \/ \E r \in Req : FetchNotOk(r)
  \/ \E r \in Req : FetchOk(r)
  \/ \E r \in Req : JsonRejects(r)
  \/ \E r \in Req, d \in DOMAIN Documents : JsonParsed(r, d)
  \/ \E r \in Req : FilterThrows(r)
  \/ \E r \in Req : FilterReturns(r)
  \/ \E r \in Req : FilterFetchesImages(r)
  \/ \E r \in Req : \E outcomes \in [WithImage(top10[r]) -> ImageOutcomes] : ImagesSettle(r, outcomes)
  \/ \E r \in Req : Respond(r)
  \/ \E d \in TickSteps : Tick(d)

Spec == Init /\ [][Next]_vars

\* ------------------------------------------- the query interpreter, alone

ParseQueries ==
  { <<"r", "u", "n", "n", "e", "r", " ", "9">>, <<"r", "u", "n", "n", "e", "r", " ", "4", "2">>, <<"M", "e", "n", " ", "R", "u", "n", "n", "e", "r", " ", "t", "a", "i", "l", "l", "e", " ", "4", "2", ".", "5">>, <<"t", "r", "e", "e", " ", " ", "r", "u", "n", "n", "e", "r", " ", "9", ".", "5", " ", "4", "2">>,
    <<" ", "s", "n", "e", "a", "k", "e", "r", "s", " ", "4", "9", " ">>, <<"W", "o", "o", "l", " ", "R", "u", "n", "n", "e", "r">>, <<"R", "U", "N", " ", "s", "h", "o", "e", "s", " ", "s", "i", "z", "e", " ", "1", "0">>, <<"t", "r", "a", "i", "l", " ", "3", " ", "1", "6">>,
    <<"4", "2", "a", "b", "c", " ", "r", "u", "n", "n", "e", "r", " ", "9">> }

ExplicitSizes ==
  { Undefined, Some(<<>>), Some(<<"4", "2">>), Some(<<"9">>), Some(<<"4", "2", ".", "5">>), Some(<<"4", "9">>),
    Some(<<"3", "6", " ">>), Some(<<"M">>), Some(<<"3", "4", ".", "6">>) }

InitParse ==
  /\ InitServer
  /\ arg \in {[NoArg EXCEPT !.query = q, !.size = z] : q \in ParseQueries, z \in ExplicitSizes}
  /\ out = NoOut

InterpretWith(parsed) ==
  /\ ~out.done
  /\ out' = [NoOut EXCEPT !.done = TRUE, !.terms = parsed.terms, !.size = parsed.size]
  /\ UNCHANGED <<server, arg>>

\* parseQueryAndSize is applied to the arguments
Interpret == InterpretWith(parseQueryAndSize(arg.query, arg.size))

SpecParse == InitParse /\ [][Interpret]_vars

\* -------------------------------------- the term and gender filters, alone

T_RunClub == <<"R", "u", "n", " ", "C", "l", "u", "b">>
T_Running == <<"r", "u", "n", "n", "i", "n", "g">>
T_Rerun == <<"R", "e", "r", "u", "n", " ", "T", "e", "e">>
T_MensRunner == <<"M", "e", "n", "'", "s", " ", "R", "u", "n", "n", "e", "r">>
T_WomensRunner == <<"W", "o", "m", "e", "n", "'", "s", " ", "R", "u", "n", "n", "e", "r">>
T_Laces == <<"M", "e", "n", "'", "s", " ", "a", "n", "d", " ", "W", "o", "m", "e", "n", "'", "s", " ", "L", "a", "c", "e", "s">>
T_Sock == <<"W", "O", "M", "E", "N", "'", "S", " ", "R", "U", "N", "N", "I", "N", "G", " ", "S", "O", "C", "K">>
T_MensDasher == <<"M", "e", "n", "s", " ", "D", "a", "s", "h", "e", "r">>

Titles == { T_RunClub, T_Running, T_Rerun, T_MensRunner, T_WomensRunner, T_Laces,
            T_Sock, T_MensDasher }

FilterQueries == { <<"r", "u", "n">>, <<"R", "U", "N", " ", "s", "h", "o", "e", "s">>, <<"m", "e", "n", " ", "r", "u", "n", "n", "e", "r">>, <<"s", "n", "e", "a", "k", "e", "r", "s">>, <<"'", "s">> }

Genders == {"men", "women", "undefined"}

\* The number of products of a catalog the filters are applied to on their own
MaxCatalog == 2

Catalogs == UNION {[1..n -> Titles] : n \in 1..MaxCatalog}

TitleProduct(title) == Product(title, title, Some(<<>>), Some(<<>>))

TitlesOf(products) == [i \in 1..Len(products) |-> products[i].title]

InitFilter ==
  /\ InitServer
  /\ arg \in {[NoArg EXCEPT !.query = q, !.gender = g, !.titles = c] :
                q \in FilterQueries, g \in Genders, c \in Catalogs}
  /\ out = NoOut

FilterWith(parsed, kept) ==
  /\ ~out.done
  /\ out' = [NoOut EXCEPT !.done = TRUE, !.terms = parsed.terms,
                          !.afterTerms = TitlesOf(kept),
                          !.afterGender = TitlesOf(GenderFilter(kept, arg.gender))]
  /\ UNCHANGED <<server, arg>>

FilterFrom(parsed) ==
  FilterWith(parsed, TermFilter([i \in 1..Len(arg.titles) |-> TitleProduct(arg.titles[i])],
                                parsed.terms))

\* lines 140-158 of searchAllbirds are applied to a catalog
Filter == FilterFrom(parseQueryAndSize(arg.query, arg.size))

SpecFilter == InitFilter /\ [][Filter]_vars
\* ----------------------------------------------------------------- claims

FiveMinutes == 5 * 60 * 1000

\* C1: a lookup made while a snapshot exists and less than 5 minutes have
\* passed since it was stored issues no upstream fetch and returns that
\* snapshot, leaving the cache as it is; a lookup made with no snapshot, or
\* 5 minutes or more after it was stored, issues exactly one upstream fetch;
\* and a lookup issues no fetch after its staleness check.
C1_Lookup(r) ==
  /\ (pc[r] = "idle" /\ pc'[r] # "idle") =>
       IF productsCache.some /\ now - cacheTime < FiveMinutes
       THEN /\ fetches'[r] = 0
            /\ pc'[r] = "filter"
            /\ allProducts'[r] = productsCache.val
            /\ UNCHANGED <<productsCache, cacheTime>>
       ELSE /\ fetches'[r] = 1
            /\ pc'[r] = "awaitFetch"
  /\ (pc[r] # "idle" /\ pc'[r] # "idle") => fetches'[r] = fetches[r]

C1_FreshnessWindow == [][\A r \in Req : C1_Lookup(r)]_vars

\* a hit at the last millisecond of the window
C1_Witness ==
  /\ pc[1] = "filter" /\ fetches[1] = 0
  /\ productsCache.some /\ now - cacheTime = FiveMinutes - 1
  /\ allProducts[1] = productsCache.val

InFlight == {r \in Req : pc[r] \in {"awaitFetch", "awaitJson"}}

\* C2: at most one upstream catalog fetch is in flight at any time
C2_SingleFlight == Cardinality(InFlight) <= 1

\* C3: the handler never raises; a failed catalog fetch ends in a response
\* with no shoes, totalFound 0 and an error message; and in every response
\* error is non-null only with no shoes and totalFound 0.
C3_ErrorAsData ==
  \A r \in Req :
    /\ result[r].kind # "raised"
    /\ pc[r] = "done" =>
         /\ result[r].kind = "returned"
         /\ fetchFailed[r] =>
              /\ result[r].body.shoes = <<>>
              /\ result[r].body.totalFound = 0
              /\ ~result[r].body.error.isNull
         /\ ~result[r].body.error.isNull =>
              /\ result[r].body.shoes = <<>>
              /\ result[r].body.totalFound = 0

C3_Witness ==
  /\ pc[1] = "done" /\ fetchFailed[1]
  /\ result[1].kind = "returned"
  /\ result[1].body.error = ErrorOf("HTTP 500: Failed to fetch Allbirds products")
  /\ result[1].body.shoes = <<>>

\* C4: the snapshot and its timestamp change only in the step in which a
\* catalog fetch succeeds, both in that step (the timestamp to the time of
\* the step); a failed fetch leaves both as they were; and in every state
\* the pair is one that was stored together.
C4_Step ==
  /\ (productsCache' # productsCache \/ cacheTime' # cacheTime) =>
       \E r \in Req : /\ pc[r] = "awaitJson" /\ pc'[r] = "filter"
                      /\ productsCache'.some
                      /\ allProducts'[r] = productsCache'.val
                      /\ cacheTime' = now
  /\ \A r \in Req : (fetchFailed'[r] /\ ~fetchFailed[r]) =>
                       UNCHANGED <<productsCache, cacheTime>>

C4_AtomicPair ==
  /\ [](productsCache = lastStore.cache /\ cacheTime = lastStore.time)
  /\ [][C4_Step]_vars

\* a fetch has failed while a snapshot stored at an earlier time is kept
C4_Witness ==
  \E r \in Req : /\ pc[r] = "done" /\ fetchFailed[r]
                 /\ productsCache.some /\ cacheTime < now

\* the products of the catalog of request r that pass the three filters
C6_Passing(r) ==
  {i \in 1..Len(ArrayOf(allProducts[r])) :
     /\ TermKeeps(ArrayOf(allProducts[r])[i], terms[r])
     /\ GenderKeeps(ArrayOf(allProducts[r])[i], input[r].gender)
     /\ Truthy(usSize[r]) => SizeKeeps(ArrayOf(allProducts[r])[i], usSize[r])}

\* the k-th of them in catalog order
C6_Nth(r, k) ==
  ArrayOf(allProducts[r])[CHOOSE i \in C6_Passing(r) :
                             Cardinality({j \in C6_Passing(r) : j <= i}) = k]

C_DataPrefix == <<"d", "a", "t", "a", ":">>

\* C5: once the products are selected, however the image fetches end
\* (rejected, non-success status, or a body) the search is not aborted:
\* the response has error null and one shoe per selected product, a shoe
\* whose image fetch failed or whose product has no image has imageUrl "",
\* a shoe whose image fetch succeeded has a data URL, and the other fields
\* of every shoe are those of its product whatever the fetches did.
C5_ImageFailuresAbsorbed ==
  \A r \in Req :
    (pc[r] = "done" /\ imageOutcome[r] # <<>>) =>
      /\ ~result[r].isError
      /\ result[r].body.error.isNull
      /\ Len(result[r].body.shoes) = Len(imageOutcome[r])
      /\ \A i \in 1..Len(imageOutcome[r]) :
           /\ imageOutcome[r][i] # "ok" => result[r].body.shoes[i].imageUrl = <<>>
           /\ imageOutcome[r][i] = "ok" =>
                SubSeq(result[r].body.shoes[i].imageUrl, 1, 5) = C_DataPrefix
           /\ result[r].body.shoes[i] =
                ShoeOf(C6_Nth(r, i), usSize[r], result[r].body.shoes[i].imageUrl)

\* one image fetch rejected, one answered, and one product had no image
C5_Witness ==
  /\ pc[1] = "done" /\ result[1].body.error.isNull
  /\ \E i, j, k \in 1..Len(imageOutcome[1]) :
       /\ imageOutcome[1][i] = "throws" /\ result[1].body.shoes[i].imageUrl = <<>>
       /\ imageOutcome[1][j] = "ok" /\ result[1].body.shoes[j].imageUrl # <<>>
       /\ imageOutcome[1][k] = "none" /\ result[1].body.shoes[k].imageUrl = <<>>

\* C6: in a successful search totalFound is the number of products that
\* pass the term, gender and size filters, and shoes are the first
\* min(5, totalFound) of them in catalog order.
C6_TotalAndTruncation ==
  \A r \in Req :
    (pc[r] = "done" /\ result[r].body.error.isNull) =>
      /\ result[r].body.totalFound = Cardinality(C6_Passing(r))
      /\ Len(result[r].body.shoes) =
           IF Cardinality(C6_Passing(r)) < 5 THEN Cardinality(C6_Passing(r)) ELSE 5
      /\ \A k \in 1..Len(result[r].body.shoes) :
           \E i \in C6_Passing(r) :
              /\ Cardinality({j \in C6_Passing(r) : j <= i}) = k
              /\ result[r].body.shoes[k].handle = ArrayOf(allProducts[r])[i].handle
              /\ result[r].body.shoes[k].name = ArrayOf(allProducts[r])[i].title

C6_Witness ==
  /\ pc[1] = "done" /\ result[1].body.error.isNull
  /\ result[1].body.totalFound = 7
  /\ Len(result[1].body.shoes) = 5

\* word occurs in title between two positions that are the ends of the
\* title or have a character that is no letter, digit or underscore
C_WholeWord(title, word) ==
  \E i \in 1..Len(title) :
     /\ i + Len(word) - 1 <= Len(title)
     /\ \A k \in 1..Len(word) : ToLowerChar(title[i + k - 1]) = ToLowerChar(word[k])
     /\ (i = 1 \/ ~IsWordChar(title[i - 1]))
     /\ (i + Len(word) > Len(title) \/ ~IsWordChar(title[i + Len(word)]))

\* term occurs in title right after a word boundary: where a word starts,
\* for a term that begins with a letter, digit or underscore, and right
\* after the last character of a word otherwise
C_AtBoundary(title, term) ==
  \E i \in 1..Len(title) :
     /\ i + Len(term) - 1 <= Len(title)
     /\ \A k \in 1..Len(term) : ToLowerChar(title[i + k - 1]) = ToLowerChar(term[k])
     /\ IF IsWordChar(term[1])
        THEN i = 1 \/ ~IsWordChar(title[i - 1])
        ELSE i > 1 /\ IsWordChar(title[i - 1])

C_In(title, titles) == \E i \in 1..Len(titles) : titles[i] = title

C_Run == <<"r", "u", "n">>

\* C7, as claimed: the term filter keeps a product only if every term
\* occurs in the title as a whole word ("run" does not match "running"),
\* and an empty term list keeps every product.
C7_WholeWordTerms ==
  out.done =>
    /\ \A i \in 1..Len(out.afterTerms) : \A k \in 1..Len(out.terms) :
         C_WholeWord(out.afterTerms[i], out.terms[k])
    /\ out.terms = <<C_Run>> => ~C_In(T_Running, out.afterTerms)
    /\ out.terms = <<>> => out.afterTerms = arg.titles

\* C7, amended: the term filter keeps exactly the products in whose title
\* every term occurs, case-insensitively, right after a word boundary, with
\* nothing required after the term: "run" matches "Run Club" and "running"
\* and not "Rerun Tee"; an empty term list keeps every product.
C7_WordStartTerms ==
  out.done =>
    /\ LET Keep(title) == \A k \in 1..Len(out.terms) : C_AtBoundary(title, out.terms[k])
       IN  out.afterTerms = SelectSeq(arg.titles, Keep)
    /\ out.terms = <<C_Run>> =>
         /\ C_In(T_RunClub, arg.titles) => C_In(T_RunClub, out.afterTerms)
         /\ C_In(T_Running, arg.titles) => C_In(T_Running, out.afterTerms)
         /\ ~C_In(T_Rerun, out.afterTerms)
    /\ out.terms = <<>> => out.afterTerms = arg.titles

C7_Witness ==
  /\ out.done /\ out.terms = <<C_Run>>
  /\ arg.titles = <<T_Rerun, T_Running>>
  /\ out.afterTerms = <<T_Running>>

\* C8: with gender "men" every product kept has the word "men" and not the
\* word "women" in its title ("Women's Runner" is never kept, "Men's Runner"
\* is); with gender "women" every product kept has the word "women"; with
\* no gender the step removes nothing.
C8_GenderFilter ==
  out.done =>
    /\ arg.gender = "men" =>
         /\ \A i \in 1..Len(out.afterGender) :
              /\ C_WholeWord(out.afterGender[i], <<"m", "e", "n">>)
              /\ ~C_WholeWord(out.afterGender[i], <<"w", "o", "m", "e", "n">>)
         /\ ~C_In(T_WomensRunner, out.afterGender)
         /\ C_In(T_MensRunner, out.afterTerms) => C_In(T_MensRunner, out.afterGender)
    /\ arg.gender = "women" =>
         \A i \in 1..Len(out.afterGender) : C_WholeWord(out.afterGender[i], <<"w", "o", "m", "e", "n">>)
    /\ arg.gender = "undefined" => out.afterGender = out.afterTerms
    /\ \A i \in 1..Len(out.afterGender) : C_In(out.afterGender[i], out.afterTerms)

C8_Witness ==
  /\ out.done /\ arg.gender = "men"
  /\ out.afterTerms = <<T_WomensRunner, T_MensRunner>>
  /\ out.afterGender = <<T_MensRunner>>

\* C9, as claimed: whenever an explicit size is supplied the resolved size
\* is the EU-to-US resolution of that value, whatever the query holds.
C9_ExplicitSizeResolved ==
  (out.done /\ arg.size.some) => out.size = Some(resolveSize(arg.size.val))

\* C9, amended: whenever a non-empty explicit size is supplied the resolved
\* size is the EU-to-US resolution of that value, whatever the query holds
\* ("runner 9" with "42" resolves to "9" by 42 -> 9); an empty explicit size
\* gives no resolved size; a size token of the query is used only when no
\* explicit size is supplied.
C9_NonEmptyExplicitSizeResolved ==
  out.done =>
    /\ (arg.size.some /\ arg.size.val # <<>>) => out.size = Some(resolveSize(arg.size.val))
    /\ (arg.size.some /\ arg.size.val = <<>>) => out.size = Undefined
    /\ arg.size = Some(<<"4", "2">>) => out.size = Some(<<"9">>)
    /\ (arg.size = Undefined /\ arg.query = <<"r", "u", "n", "n", "e", "r", " ", "9">>) => out.size = Some(<<"9">>)

C9_Witness ==
  /\ out.done
  /\ arg.query = <<"t", "r", "e", "e", " ", " ", "r", "u", "n", "n", "e", "r", " ", "9", ".", "5", " ", "4", "2">>
  /\ arg.size = Some(<<"4", "2">>)
  /\ out.size = Some(<<"9">>)

\* C10: a catalog that was obtained, whatever fields it lacks, never makes
\* the search fail: the response has error null, and a document with no
\* products field is an empty catalog.
C10_MalformedTolerated ==
  \A r \in Req :
    (pc[r] = "done" /\ ~fetchFailed[r]) =>
      /\ result[r].body.error.isNull
      /\ ~Documents[allProducts[r]].products.some => result[r].body.totalFound = 0
====
